---- MODULE Spec2Model ----
(***************************************************************************)
(* Model of ts-unused (src/index.ts): the filter-rule compiler             *)
(* (createMatcher, createFilter), the declaration collector                *)
(* (collectTargets), the reference classifier (isReferenced) and the main  *)
(* loop with its totals and its output.                                    *)
(*                                                                         *)
(* Strings are sequences of tokens.  A token stands for a run of           *)
(* characters that no pattern of the model splits: "src", "foo", ".ts".    *)
(* The characters the code or the glob library looks at are tokens of      *)
(* their own: "/", "|", ":", "*", "{", ",", "}", the line break "\n" and   *)
(* the digits.                                                             *)
(***************************************************************************)
EXTENDS Integers, Sequences, FiniteSets, TLC

(***************************************************************************)
(* String helpers (JavaScript String methods used by the code)             *)
(***************************************************************************)

\* String.prototype.lastIndexOf, 0-based, -1 when absent.
RECURSIVE lastIndexOfFrom(_, _, _)
lastIndexOfFrom(s, c, i) ==
    IF i = 0 THEN -1
    ELSE IF s[i] = c THEN i - 1
    ELSE lastIndexOfFrom(s, c, i - 1)

lastIndexOf(s, c) == lastIndexOfFrom(s, c, Len(s))

\* String.prototype.substring(from) and substring(from, to), 0-based.
substringFrom(s, from) == SubSeq(s, from + 1, Len(s))

substring(s, from, to) == SubSeq(s, from + 1, to)

\* String.prototype.split(sep): the pieces between the separators.
RECURSIVE split(_, _)
split(s, sep) ==
    IF \A i \in 1..Len(s) : s[i] # sep THEN <<s>>
    ELSE LET i == CHOOSE k \in 1..Len(s) :
                      s[k] = sep /\ \A j \in 1..(k - 1) : s[j] # sep
         IN  <<SubSeq(s, 1, i - 1)>> \o split(SubSeq(s, i + 1, Len(s)), sep)

\* Array.prototype.filter(s => Boolean(s)): the non-empty strings.
RECURSIVE filterNonEmpty(_)
filterNonEmpty(ss) ==
    IF ss = <<>> THEN <<>>
    ELSE IF Head(ss) = <<>> THEN filterNonEmpty(Tail(ss))
    ELSE <<Head(ss)>> \o filterNonEmpty(Tail(ss))

Digits == {"0", "1", "2", "3", "4", "5", "6", "7", "8", "9"}

DigitValue(d) ==
    CASE d = "0" -> 0 [] d = "1" -> 1 [] d = "2" -> 2 [] d = "3" -> 3
      [] d = "4" -> 4 [] d = "5" -> 5 [] d = "6" -> 6 [] d = "7" -> 7
      [] d = "8" -> 8 [] d = "9" -> 9

RECURSIVE DecimalValue(_)
DecimalValue(s) ==
    IF s = <<>> THEN 0
    ELSE 10 * DecimalValue(SubSeq(s, 1, Len(s) - 1)) + DigitValue(s[Len(s)])

\* Number(string): the empty string is 0, a run of digits its value, anything
\* else NaN.
Number(s) ==
    IF \A i \in 1..Len(s) : s[i] \in Digits
    THEN [nan |-> FALSE, val |-> DecimalValue(s)]
    ELSE [nan |-> TRUE, val |-> 0]

\* `Number(...) || undefined`: NaN and 0 are falsy.
undefined == [undefined |-> TRUE]

NumberOrUndefined(s) ==
    LET n == Number(s)
    IN  IF n.nan \/ n.val = 0 THEN undefined ELSE [undefined |-> FALSE, val |-> n.val]

(***************************************************************************)
(* minimatch(path, pattern), default options, as index.ts calls it         *)
(***************************************************************************)

DotTokens == {".", "..", ".ts", ".test", ".d"}

\* A path part that starts with a dot (".", "..", a dot file).
IsDotPart(part) == part # <<>> /\ part[1] \in DotTokens

\* One path part against one pattern part without "/": "*" (and so "**"
\* inside a part) matches any run of tokens of the part.
RECURSIVE globPart(_, _)
globPart(f, p) ==
    IF p = <<>> THEN f = <<>>
    ELSE IF p[1] = "*"
         THEN globPart(f, Tail(p)) \/ (f # <<>> /\ globPart(Tail(f), p))
         ELSE f # <<>> /\ f[1] = p[1] /\ globPart(Tail(f), Tail(p))

\* A pattern part that starts with a wildcard matches neither the empty part
\* nor a part that starts with a dot.
matchPart(f, p) ==
    IF p # <<>> /\ p[1] = "*"
    THEN f # <<>> /\ ~IsDotPart(f) /\ globPart(f, p)
    ELSE globPart(f, p)

GLOBSTAR == <<"*", "*">>

\* Minimatch.matchOne: the parts of the path against the parts of the
\* pattern; a part that is exactly "**" matches any number of directories,
\* and needs a part of the path after it.
RECURSIVE matchOne(_, _)
matchOne(file, pattern) ==
    IF pattern = <<>>
    THEN file = <<>> \/ (Len(file) = 1 /\ file[1] = <<>>)
    ELSE IF file = <<>> THEN FALSE
    ELSE IF Head(pattern) = GLOBSTAR
    THEN IF Len(pattern) = 1
         THEN \A i \in 1..Len(file) : ~IsDotPart(file[i])
         ELSE \E k \in 0..(Len(file) - 1) :
                 /\ \A i \in 1..k : ~IsDotPart(file[i])
                 /\ matchOne(SubSeq(file, k + 1, Len(file)), Tail(pattern))
    ELSE matchPart(Head(file), Head(pattern))
         /\ matchOne(Tail(file), Tail(pattern))

\* Brace expansion of a pattern with at most one level of braces.
RECURSIVE braceExpand(_)
braceExpand(pattern) ==
    IF \A i \in 1..Len(pattern) : pattern[i] # "{" THEN {pattern}
    ELSE LET open == CHOOSE k \in 1..Len(pattern) :
                        pattern[k] = "{" /\ \A j \in 1..(k - 1) : pattern[j] # "{"
             closes == {k \in (open + 1)..Len(pattern) : pattern[k] = "}"}
         IN  IF closes = {} THEN {pattern}
             ELSE LET close == CHOOSE k \in closes : \A j \in closes : k <= j
                      alts == split(SubSeq(pattern, open + 1, close - 1), ",")
                  IN  UNION {braceExpand(SubSeq(pattern, 1, open - 1) \o alts[a]
                                         \o SubSeq(pattern, close + 1, Len(pattern)))
                             : a \in 1..Len(alts)}

\* minimatch(p, pattern): the empty pattern matches the empty string only;
\* otherwise some brace expansion matches part by part.
match(p, pattern) ==
    IF pattern = <<>> THEN p = <<>>
    ELSE \E alt \in braceExpand(pattern) :
            matchOne(split(p, "/"), split(alt, "/"))

(***************************************************************************)
(* The project under analysis: what the TypeScript front end hands to the  *)
(* code.  File names, declaration trees (ts.Node) and line tables.         *)
(*                                                                         *)
(*   src/a.ts                                                              *)
(*     0  class C {                                                        *)
(*     1    m() { this.m(); }                                              *)
(*     2    private p() {                                                  *)
(*     3      function inner() {}                                          *)
(*     4    }                                                              *)
(*     5    toString() {}                                                  *)
(*     6  }                                                                *)
(*     7  function foo() {                                                 *)
(*     8    foo();                                                         *)
(*     9  }                                                                *)
(*   src/test/t.ts                                                         *)
(*     0  function helper() {                                              *)
(*     1  }                                                                *)
(*     2  namespace helper {}                                              *)
(***************************************************************************)

FileA == <<"src", "/", "a", ".ts">>
FileT == <<"src", "/", "test", "/", "t", ".ts">>
FileB == <<"src", "/", "b", ".ts">>
FileBTest == <<"src", "/", "b", ".test", ".ts">>
FileRootTest == <<"b", ".test", ".ts">>

NoNode == 0

Leaf(kind, parent, file, start, end, text) ==
    [kind |-> kind, parent |-> parent, file |-> file, start |-> start,
     end |-> end, children |-> <<>>, private |-> FALSE, name |-> NoNode,
     text |-> text]

Decl(kind, parent, file, start, end, children, private, name) ==
    [kind |-> kind, parent |-> parent, file |-> file, start |-> start,
     end |-> end, children |-> children, private |-> private, name |-> name,
     text |-> <<>>]

\* ts.Node: kind, parent, getSourceFile().fileName, getStart(), getEnd(),
\* the children forEachChild visits, whether modifiers hold PrivateKeyword,
\* the name (an Identifier node) and, for an Identifier, getText().
Nodes ==
    <<  Decl("SourceFile", NoNode, FileA, 0, 182, <<2, 15>>, FALSE, NoNode),
        Decl("ClassDeclaration", 1, FileA, 0, 121, <<3, 4, 7, 12>>, FALSE, 3),
        Leaf("Identifier", 2, FileA, 6, 7, <<"C">>),
        Decl("MethodDeclaration", 2, FileA, 22, 38, <<5, 6>>, FALSE, 5),
        Leaf("Identifier", 4, FileA, 22, 23, <<"m">>),
        Leaf("Block", 4, FileA, 26, 38, <<>>),
        Decl("MethodDeclaration", 2, FileA, 42, 83, <<8, 9, 10>>, TRUE, 9),
        Leaf("PrivateKeyword", 7, FileA, 42, 49, <<>>),
        Leaf("Identifier", 7, FileA, 50, 51, <<"p">>),
        Decl("Block", 7, FileA, 54, 83, <<11>>, FALSE, NoNode),
        Decl("FunctionDeclaration", 10, FileA, 62, 79, <<14>>, FALSE, 14),
        Decl("MethodDeclaration", 2, FileA, 102, 115, <<13>>, FALSE, 13),
        Leaf("Identifier", 12, FileA, 102, 110, <<"to", "String">>),
        Leaf("Identifier", 11, FileA, 71, 76, <<"inner">>),
        Decl("FunctionDeclaration", 1, FileA, 140, 181, <<16, 17>>, FALSE, 16),
        Leaf("Identifier", 15, FileA, 149, 152, <<"foo">>),
        Leaf("Block", 15, FileA, 155, 181, <<>>),
        Decl("SourceFile", NoNode, FileT, 0, 60, <<19, 22>>, FALSE, NoNode),
        Decl("FunctionDeclaration", 18, FileT, 0, 21, <<20, 21>>, FALSE, 20),
        Leaf("Identifier", 19, FileT, 9, 15, <<"helper">>),
        Leaf("Block", 19, FileT, 18, 21, <<>>),
        Decl("ModuleDeclaration", 18, FileT, 40, 59, <<23, 24>>, FALSE, 23),
        Leaf("Identifier", 22, FileT, 50, 56, <<"helper">>),
        Leaf("ModuleBlock", 22, FileT, 57, 59, <<>>)  >>

NodeIds == DOMAIN Nodes

\* service.getProgram().getSourceFiles(): the SourceFile nodes, in order.
SourceFiles == <<1, 18>>

\* ts.SourceFile.getLineStarts(): the offset at which each line starts.
lineStarts(fileName) ==
    IF fileName = FileA THEN <<0, 20, 40, 60, 80, 100, 120, 140, 160, 180>>
    ELSE <<0, 20, 40>>

\* getLineAndCharacterOfPosition(pos).line, 0-based.
lineOfPosition(fileName, pos) ==
    Cardinality({i \in DOMAIN lineStarts(fileName) : lineStarts(fileName)[i] <= pos}) - 1

(***************************************************************************)
(* createMatcher, createFilter                                             *)
(***************************************************************************)

\* createMatcher(raw)(node): whether the rule `raw` matches the node.
createMatcher(raw, node) ==
    LET pipe == lastIndexOf(raw, "|")
        colon == lastIndexOf(raw, ":")
    IN  IF pipe < 0
        THEN match(Nodes[node].file, raw)
        ELSE LET pathPattern == substring(raw, 0, pipe)
                 namePattern == substringFrom(raw, pipe + 1)
                 lineNumber == NumberOrUndefined(substringFrom(raw, colon + 1))
             IN  \/ pathPattern # <<>> /\ match(Nodes[node].file, pathPattern)
                 \/ namePattern # <<>> /\ match(Nodes[node].text, namePattern)
                 \/ /\ ~lineNumber.undefined
                    /\ lineOfPosition(Nodes[node].file, Nodes[node].start) + 1
                          = lineNumber.val

defaultExcludes ==
    <<  <<"*", "*", "/", "test", "/", "*", "*">>,
        <<"*", "*", ".test", ".ts">>,
        <<"*", "*", "/", "*", ".d", ".ts">>  >>

\* No --ignoreCheck argument.
NoIgnoreCheck == <<"--">>

\* createFilter: the rules are the default excludes, or with --ignoreCheck
\* the non-empty lines of the file.
filterRules(excludeFile) ==
    IF excludeFile = NoIgnoreCheck THEN defaultExcludes
    ELSE filterNonEmpty(split(excludeFile, "\n"))

\* createFilter()(node): TRUE when no rule matches the node.
filter(rules, node) ==
    \A i \in 1..Len(rules) : ~createMatcher(rules[i], node)

(***************************************************************************)
(* collectTargets                                                          *)
(***************************************************************************)

CandidateKinds ==
    {"InterfaceDeclaration", "ClassDeclaration", "MethodDeclaration",
     "FunctionDeclaration", "PropertyDeclaration", "ModuleDeclaration",
     "EnumDeclaration", "TypeAliasDeclaration"}

\* setAdd without the Set's test for an element it already holds.
setAddAgain(bucket, x) == Append(bucket, x)

\* Set.prototype.add on a Set kept in insertion order.
setAdd(bucket, x) ==
    IF \E i \in 1..Len(bucket) : bucket[i] = x THEN bucket ELSE Append(bucket, x)

\* Whether `node` or a node above it carries the private modifier.
RECURSIVE privateAtOrAbove(_)
privateAtOrAbove(node) ==
    IF node = NoNode THEN FALSE
    ELSE Nodes[node].private \/ privateAtOrAbove(Nodes[node].parent)

\* collectStep with the private modifier taken to cover everything beneath
\* the private node.
collectStepTransitive(node, rules, bucket) ==
    IF ~privateAtOrAbove(node)
    THEN LET ident == IF Nodes[node].kind \in CandidateKinds
                      THEN Nodes[node].name ELSE NoNode
         IN  IF ident # NoNode /\ filter(rules, ident)
             THEN setAdd(bucket, ident) ELSE bucket
    ELSE bucket

\* The body of the forEachChild callback before it recurses: the name of
\* `node` is added when `node` is not private, of a candidate kind and
\* accepted by the filter.
collectStep(node, rules, bucket) ==
    IF ~Nodes[node].private
    THEN LET ident == IF Nodes[node].kind \in CandidateKinds
                      THEN Nodes[node].name ELSE NoNode
         IN  IF ident # NoNode /\ filter(rules, ident)
             THEN setAdd(bucket, ident) ELSE bucket
    ELSE bucket

RECURSIVE collectChildren(_, _, _, _)
RECURSIVE collectTargets(_, _, _)

\* ts.forEachChild(node, child => ...), from the i-th child on.
collectChildren(node, i, rules, bucket) ==
    IF i > Len(Nodes[node].children) THEN bucket
    ELSE collectChildren(node, i + 1, rules,
             collectTargets(Nodes[node].children[i], rules,
                            collectStep(node, rules, bucket)))

\* collectTargets(node, filter, bucket): the bucket afterwards.
collectTargets(node, rules, bucket) == collectChildren(node, 1, rules, bucket)

(***************************************************************************)
(* The language service: findReferences                                    *)
(***************************************************************************)

\* ts.ScriptElementKind (the values of the TypeScript services API).
classElement == "class"
memberFunctionElement == "method"
functionElement == "function"

\* definition.kind of the symbol a declaration's name resolves to.
definitionKind(ident) ==
    LET kind == Nodes[Nodes[ident].parent].kind
    IN  CASE kind = "ClassDeclaration" -> classElement
          [] kind = "MethodDeclaration" -> memberFunctionElement
          [] kind = "FunctionDeclaration" -> functionElement
          [] OTHER -> ""

\* The places of the project where a name can be referenced: file name and
\* textSpan.  1: this.m() in the body of m (inside class C); 2: foo() in the
\* body of foo; 3: a use in src/b.ts; 4: a use in src/test/t.ts; 5: a use in
\* src/b.test.ts; 6: a use in b.test.ts.
Sites ==
    <<  [fileName |-> FileA, start |-> 33, length |-> 1],
        [fileName |-> FileA, start |-> 162, length |-> 3],
        [fileName |-> FileB, start |-> 5, length |-> 1],
        [fileName |-> FileT, start |-> 19, length |-> 1],
        [fileName |-> FileBTest, start |-> 4, length |-> 1],
        [fileName |-> FileRootTest, start |-> 4, length |-> 1]  >>

\* A ts.ReferenceEntry for the declaration `ident`: index 0 is the
\* declaration's own name (isDefinition), index i > 0 is Sites[i].
referenceEntry(ident, i) ==
    IF i = 0
    THEN [fileName |-> Nodes[ident].file,
          textSpan |-> [start |-> Nodes[ident].start,
                        length |-> Nodes[ident].end - Nodes[ident].start],
          isDefinition |-> TRUE]
    ELSE [fileName |-> Sites[i].fileName,
          textSpan |-> [start |-> Sites[i].start, length |-> Sites[i].length],
          isDefinition |-> FALSE]

\* The most groups findReferences returns in the model, and the most
\* references over all its groups.
MaxGroups == 2
MaxRefs == 2

RECURSIVE sumLen(_)
sumLen(groups) ==
    IF groups = <<>> THEN 0 ELSE Len(Head(groups)) + sumLen(Tail(groups))

\* The references of one group: indices of referenceEntry, in file order.
RefLists ==
    {r \in UNION {[1..n -> 0..Len(Sites)] : n \in 0..MaxRefs} :
        \A i \in 1..(Len(r) - 1) : r[i] < r[i + 1]}

\* What findReferences can return: undefined, or a list of groups.
Undefined == [undefined |-> TRUE, groups |-> <<>>]

Answers ==
    {Undefined} \cup
    {[undefined |-> FALSE, groups |-> a] :
        a \in {b \in UNION {[1..g -> RefLists] : g \in 0..MaxGroups} :
                  sumLen(b) <= MaxRefs}}

\* The ts.ReferencedSymbol[] an answer stands for.
referencedSymbols(ident, answer) ==
    [g \in 1..Len(answer.groups) |->
        [definition |-> [kind |-> definitionKind(ident)],
         references |-> [i \in 1..Len(answer.groups[g]) |->
                            referenceEntry(ident, answer.groups[g][i])]]]

(***************************************************************************)
(* isReferenced                                                            *)
(***************************************************************************)

TestFiles == <<"{", "*", "*", "/", "test", "/", "*", "*", ",", "*", "*", ".test", ".ts", "}">>

\* The file names references and declarations of the project have.
FileNames == {FileA, FileT, FileB, FileBTest, FileRootTest}

\* match(fileName, '{**/test/**,**.test.ts}') for each file name.
matchesTestFiles == [f \in FileNames |-> match(f, TestFiles)]

\* The three `continue` conditions of the inner loop.
ignoredReference(definition, reference, fileName, span) ==
    \/ reference.isDefinition
    \/ matchesTestFiles[reference.fileName]
    \/ /\ definition.kind = classElement
       /\ reference.fileName = fileName
       /\ reference.textSpan.start >= span.start
       /\ reference.textSpan.start + reference.textSpan.length < span.end

\* isReferenced(service, node), given the groups findReferences returned:
\* TRUE at the first reference that is not ignored.
isReferenced(node, groups) ==
    LET fileName == Nodes[node].file
        span == [start |-> Nodes[Nodes[node].parent].start,
                 end |-> Nodes[Nodes[node].parent].end]
    IN  \E g \in 1..Len(groups) :
            \E r \in 1..Len(groups[g].references) :
                ~ignoredReference(groups[g].definition, groups[g].references[r],
                                  fileName, span)

(***************************************************************************)
(* UnusedSymbolRecord                                                      *)
(***************************************************************************)

\* file.getLineAndCharacterOfPosition(pos).
getLineAndCharacterOfPosition(fileName, pos) ==
    LET line == lineOfPosition(fileName, pos)
    IN  [line |-> line, character |-> pos - lineStarts(fileName)[line + 1]]

\* new UnusedSymbolRecord(fileName, symbolName, start, end): span defaults to
\* 1 + end.line - start.line.
UnusedSymbolRecord(fileName, symbolName, start, end) ==
    [fileName |-> fileName, symbolName |-> symbolName, start |-> start,
     end |-> end, span |-> 1 + end.line - start.line]

\* recordOf with the positions of the name instead of target.parent.
recordOfIdentifier(file, target) ==
    LET start == getLineAndCharacterOfPosition(Nodes[file].file, Nodes[target].start)
        end == getLineAndCharacterOfPosition(Nodes[file].file, Nodes[target].end)
    IN  UnusedSymbolRecord(Nodes[file].file, Nodes[target].text, start, end)

\* The record the main loop builds for an unused target.
recordOf(file, target) ==
    LET start == getLineAndCharacterOfPosition(Nodes[file].file,
                                               Nodes[Nodes[target].parent].start)
        end == getLineAndCharacterOfPosition(Nodes[file].file,
                                             Nodes[Nodes[target].parent].end)
    IN  UnusedSymbolRecord(Nodes[file].file, Nodes[target].text, start, end)

\* UnusedSymbolRecord.toString(): file|symbol:line -> potentially save ~span lines.
toString(record) ==
    [line |-> "record", fileName |-> record.fileName,
     symbolName |-> record.symbolName, lineNumber |-> 1 + record.start.line,
     span |-> record.span]

\* unused.join('\n') written by one console.log: one line per record, and
\* one empty line when there is no record.
joinLines(records) ==
    IF records = <<>> THEN << [line |-> "empty"] >>
    ELSE [i \in 1..Len(records) |-> toString(records[i])]

(***************************************************************************)
(* The run                                                                 *)
(***************************************************************************)

VARIABLES
    excludeFile,  \* the --ignoreCheck file's text, or NoIgnoreCheck
    pc,           \* where the script is
    fileIndex,    \* position of the for-of loop over the source files
    targets,      \* the Set of the current file, in insertion order
    targetIndex,  \* position of the for-of loop over targets
    fileLines,
    totalLines,
    unused,
    stdout,       \* console.log lines
    stderr,       \* console.error lines
    lastTarget,   \* the target of the last isReferenced call
    lastAnswer,   \* what findReferences returned to it
    raw,          \* a rule line given to createMatcher
    node,         \* the node its matcher is applied to
    matched       \* the matcher's result

vars == <<excludeFile, pc, fileIndex, targets, targetIndex, fileLines, totalLines,
          unused, stdout, stderr, lastTarget, lastAnswer, raw, node, matched>>

matcherVars == <<raw, node, matched>>

\* The --ignoreCheck files of the model: none (the default excludes), `|to*`,
\* `**/test/**` + blank line + `|:8`, and the empty file.
ExcludeFiles ==
    {NoIgnoreCheck,
     <<"|", "to", "*">>,
     <<"*", "*", "/", "test", "/", "*", "*", "\n", "\n", "|", ":", "8">>,
     <<>>}

rules == filterRules(excludeFile)

\* No findReferences call is pending.
NoAnswer == [undefined |-> FALSE, groups |-> <<>>]

Init ==
    /\ excludeFile \in ExcludeFiles
    /\ pc = "files"
    /\ fileIndex = 1
    /\ targets = <<>>
    /\ targetIndex = 1
    /\ fileLines = 0
    /\ totalLines = 0
    /\ unused = <<>>
    /\ stdout = <<>>
    /\ stderr = <<>>
    /\ lastTarget = NoNode
    /\ lastAnswer = NoAnswer
    /\ raw = <<>>
    /\ node = NoNode
    /\ matched = FALSE

\* for (const file of ...getSourceFiles()) { fileLines = 0; collectTargets(...)
BeginFile ==
    /\ pc = "files"
    /\ fileIndex <= Len(SourceFiles)
    /\ fileLines' = 0
    /\ targets' = collectTargets(SourceFiles[fileIndex], rules, <<>>)
    /\ targetIndex' = 1
    /\ pc' = "targets"
    /\ UNCHANGED <<excludeFile, fileIndex, totalLines, unused, stdout, stderr,
                   lastTarget, lastAnswer, matcherVars>>

\* for (const target of targets): isReferenced calls
\* service.findReferences(fileName, node.getStart()), which returns.
Query ==
    /\ pc = "targets"
    /\ targetIndex <= Len(targets)
    /\ lastTarget' = targets[targetIndex]
    /\ lastAnswer' \in Answers
    /\ pc' = "queried"
    /\ UNCHANGED <<excludeFile, fileIndex, targets, targetIndex, fileLines,
                   totalLines, unused, stdout, stderr, matcherVars>>

\* The rest of the iteration: the loops of isReferenced and the body of
\* `if (!isReferenced(service, target))`.  Iterating the undefined result of
\* findReferences throws a TypeError nothing catches: the script ends there.
Classify ==
    /\ pc = "queried"
    /\ LET file == SourceFiles[fileIndex]
           target == targets[targetIndex]
           record == recordOf(file, target)
       IN  IF lastAnswer.undefined
           THEN /\ pc' = "crashed"
                /\ UNCHANGED <<targetIndex, unused, stderr, fileLines>>
           ELSE IF ~isReferenced(target, referencedSymbols(target, lastAnswer))
           THEN /\ unused' = Append(unused, record)
                /\ stderr' = Append(stderr, toString(record))
                /\ fileLines' = fileLines + record.span
                /\ targetIndex' = targetIndex + 1
                /\ pc' = "targets"
           ELSE /\ targetIndex' = targetIndex + 1
                /\ pc' = "targets"
                /\ UNCHANGED <<unused, stderr, fileLines>>
    /\ lastAnswer' = NoAnswer
    /\ UNCHANGED <<excludeFile, fileIndex, targets, totalLines, stdout,
                   lastTarget, matcherVars>>

\* EndFile with `totalLines = fileLines` instead of `totalLines += fileLines`.
EndFileOverwrite ==
    /\ pc = "targets"
    /\ targetIndex > Len(targets)
    /\ IF fileLines > 0
       THEN /\ totalLines' = fileLines
            /\ stderr' = Append(stderr, [line |-> "file",
                                         fileName |-> Nodes[SourceFiles[fileIndex]].file,
                                         fileLines |-> fileLines])
       ELSE UNCHANGED <<totalLines, stderr>>
    /\ fileIndex' = fileIndex + 1
    /\ pc' = "files"
    /\ UNCHANGED <<excludeFile, targets, targetIndex, fileLines, unused, stdout,
                   lastTarget, lastAnswer, matcherVars>>

\* if (fileLines > 0) { totalLines += fileLines; console.error(...) } }
EndFile ==
    /\ pc = "targets"
    /\ targetIndex > Len(targets)
    /\ IF fileLines > 0
       THEN /\ totalLines' = totalLines + fileLines
            /\ stderr' = Append(stderr, [line |-> "file",
                                         fileName |-> Nodes[SourceFiles[fileIndex]].file,
                                         fileLines |-> fileLines])
       ELSE UNCHANGED <<totalLines, stderr>>
    /\ fileIndex' = fileIndex + 1
    /\ pc' = "files"
    /\ UNCHANGED <<excludeFile, targets, targetIndex, fileLines, unused, stdout,
                   lastTarget, lastAnswer, matcherVars>>

\* console.log(`Found ${unused.length} unused symbols ... ${totalLines} lines ...`)
PrintSummary ==
    /\ pc = "files"
    /\ fileIndex > Len(SourceFiles)
    /\ stdout' = Append(stdout, [line |-> "summary", count |-> Len(unused),
                                 totalLines |-> totalLines])
    /\ pc' = "listing"
    /\ UNCHANGED <<excludeFile, fileIndex, targets, targetIndex, fileLines,
                   totalLines, unused, stderr, lastTarget, lastAnswer, matcherVars>>

\* console.log(unused.join('\n'))
PrintRecords ==
    /\ pc = "listing"
    /\ stdout' = stdout \o joinLines(unused)
    /\ pc' = "done"
    /\ UNCHANGED <<excludeFile, fileIndex, targets, targetIndex, fileLines,
                   totalLines, unused, stderr, lastTarget, lastAnswer, matcherVars>>

Next == BeginFile \/ Query \/ Classify \/ EndFile \/ PrintSummary \/ PrintRecords

Spec == Init /\ [][Next]_vars

(***************************************************************************)
(* createMatcher on its own: one rule line applied to one identifier       *)
(***************************************************************************)

\* The characters of the rule lines of the model, and their greatest length.
RuleAlphabet == {"|", ":", "3", "foo", "*", "/", "src"}
MaxRuleLen == 4

\* The non-empty lines of an --ignoreCheck file.
RawRules == UNION {[1..n -> RuleAlphabet] : n \in 1..MaxRuleLen}

Identifiers == {n \in NodeIds : Nodes[n].kind = "Identifier"}

InitMatcher ==
    /\ excludeFile = NoIgnoreCheck
    /\ pc = "rule"
    /\ fileIndex = 1
    /\ targets = <<>>
    /\ targetIndex = 1
    /\ fileLines = 0
    /\ totalLines = 0
    /\ unused = <<>>
    /\ stdout = <<>>
    /\ stderr = <<>>
    /\ lastTarget = NoNode
    /\ lastAnswer = NoAnswer
    /\ raw \in RawRules
    /\ node \in Identifiers
    /\ matched = FALSE

\* const matcher = createMatcher(raw); matcher(node)
ApplyMatcher ==
    /\ pc = "rule"
    /\ matched' = createMatcher(raw, node)
    /\ pc' = "matched"
    /\ UNCHANGED <<excludeFile, fileIndex, targets, targetIndex, fileLines,
                   totalLines, unused, stdout, stderr, lastTarget, lastAnswer,
                   raw, node>>

NextMatcher == ApplyMatcher

SpecMatcher == InitMatcher /\ [][NextMatcher]_vars

(***************************************************************************)
(* Properties of createMatcher (checked under SpecMatcher)                 *)
(***************************************************************************)

countOf(s, c) == Cardinality({i \in 1..Len(s) : s[i] = c})

indexOf(s, c) == CHOOSE i \in 1..Len(s) : s[i] = c

\* The three fields of a rule line `pathGlob|namePattern:lineNumber` as the
\* format states them: the path before the pipe, the name between the pipe
\* and the colon, the line number after the colon.
rulePath(line) == SubSeq(line, 1, indexOf(line, "|") - 1)

ruleRest(line) == SubSeq(line, indexOf(line, "|") + 1, Len(line))

ruleName(line) ==
    IF countOf(line, ":") = 0 THEN ruleRest(line)
    ELSE SubSeq(ruleRest(line), 1, indexOf(ruleRest(line), ":") - 1)

ruleLine(line) ==
    IF countOf(line, ":") = 0 THEN <<>>
    ELSE SubSeq(ruleRest(line), indexOf(ruleRest(line), ":") + 1, Len(ruleRest(line)))

\* A rule line of that format: one pipe, at most one colon, after the pipe
\* and followed by a positive number, and at least one field present.
wellFormedRule(line) ==
    /\ countOf(line, "|") = 1
    /\ countOf(line, ":") <= 1
    /\ countOf(line, ":") = 1 =>
          /\ countOf(ruleRest(line), ":") = 1
          /\ ruleLine(line) # <<>>
          /\ \A i \in 1..Len(ruleLine(line)) : ruleLine(line)[i] \in Digits
          /\ DecimalValue(ruleLine(line)) > 0
    /\ rulePath(line) # <<>> \/ ruleName(line) # <<>> \/ ruleLine(line) # <<>>

\* What the rule format says the rule does to an identifier: it matches when
\* at least one present field matches.
ruleExcludes(line, ident) ==
    \/ rulePath(line) # <<>> /\ match(Nodes[ident].file, rulePath(line))
    \/ ruleName(line) # <<>> /\ match(Nodes[ident].text, ruleName(line))
    \/ /\ ruleLine(line) # <<>>
       /\ lineOfPosition(Nodes[ident].file, Nodes[ident].start) + 1
             = DecimalValue(ruleLine(line))

\* C4: a rule line `pathGlob|namePattern:lineNumber` excludes a declaration
\* if and only if at least one present field matches (path glob against the
\* file, name glob against the identifier text, line number against the
\* 1-based start line); a rule line without a pipe is a file name glob.
C4_DisjunctiveFilter ==
    pc = "matched" =>
        /\ countOf(raw, "|") = 0 => (matched <=> match(Nodes[node].file, raw))
        /\ wellFormedRule(raw) => (matched <=> ruleExcludes(raw, node))

\* The parts of C4 the code does satisfy: a rule line without a pipe, and a
\* rule line with a pipe and without a colon (path and name only).
C4_WithoutLineNumber ==
    pc = "matched" =>
        /\ countOf(raw, "|") = 0 => (matched <=> match(Nodes[node].file, raw))
        /\ (wellFormedRule(raw) /\ (countOf(raw, ":") = 0 \/ ruleName(raw) = <<>>))
              => (matched <=> ruleExcludes(raw, node))

(***************************************************************************)
(* Properties of the run (checked under Spec)                              *)
(***************************************************************************)

\* The target and the file of the pending or last findReferences call.
currentFile == SourceFiles[fileIndex]

enclosing(ident) == Nodes[ident].parent

\* A designated test location: a file under a directory named test, or a
\* file whose name ends in .test.ts.
isTestLocation(fileName) ==
    LET parts == split(fileName, "/")
        base == parts[Len(parts)]
    IN  \/ \E i \in 1..(Len(parts) - 1) : parts[i] = <<"test">>
        \/ /\ Len(base) >= 3
           /\ base[Len(base) - 1] = ".test"
           /\ base[Len(base)] = ".ts"

\* The references of an answer, over all its groups.
referencesOf(ident, answer) ==
    UNION {{referenceEntry(ident, answer.groups[g][i]) : i \in 1..Len(answer.groups[g])} :
              g \in 1..Len(answer.groups)}

\* Those that are not the definition itself.
usesOf(ident, answer) == {r \in referencesOf(ident, answer) : ~r.isDefinition}

\* A reference inside the declaration that encloses the name: same file,
\* between the declaration's start and end.
selfContained(ident, reference) ==
    /\ reference.fileName = Nodes[ident].file
    /\ reference.textSpan.start >= Nodes[enclosing(ident)].start
    /\ reference.textSpan.start + reference.textSpan.length < Nodes[enclosing(ident)].end

\* A member of a composite type: a method or a property of a class.
isMember(ident) ==
    /\ Nodes[enclosing(ident)].kind \in {"MethodDeclaration", "PropertyDeclaration"}
    /\ Nodes[Nodes[enclosing(ident)].parent].kind = "ClassDeclaration"

\* The four-step filter: a reference survives when it is no definition, in no
\* test location and, for a member, not self-contained.
survives(ident, reference) ==
    /\ ~reference.isDefinition
    /\ ~isTestLocation(reference.fileName)
    /\ ~(isMember(ident) /\ selfContained(ident, reference))

\* The step that classifies the pending target reports it as unused.
reportsUnused ==
    /\ unused' = Append(unused, recordOf(currentFile, lastTarget))
    /\ pc' = "targets"
    /\ targetIndex' = targetIndex + 1

\* C1: a candidate declaration gets a record in the unused list if and only
\* if no reference findReferences returned for it survives the four-step
\* filter (definitions dropped, test locations dropped, self-contained
\* references of members dropped); one surviving reference in any group
\* makes it used.
C1_Completeness ==
    [][pc = "queried" =>
          (reportsUnused <=>
              ~\E r \in referencesOf(lastTarget, lastAnswer) : survives(lastTarget, r))]_vars

\* C2: a method of a class whose uses all lie in its own file inside its own
\* declaration (a method that only calls itself) is reported as unused.
C2_SelfReference ==
    [][(/\ pc = "queried"
        /\ ~lastAnswer.undefined
        /\ isMember(lastTarget)
        /\ Nodes[enclosing(lastTarget)].kind = "MethodDeclaration"
        /\ usesOf(lastTarget, lastAnswer) # {}
        /\ \A r \in usesOf(lastTarget, lastAnswer) : selfContained(lastTarget, r))
          => reportsUnused]_vars

\* C3: a declaration whose uses all lie in test locations (under a test
\* directory, or in a file named *.test.ts) is reported as unused.
C3_TestLocation ==
    [][(/\ pc = "queried"
        /\ ~lastAnswer.undefined
        /\ usesOf(lastTarget, lastAnswer) # {}
        /\ \A r \in usesOf(lastTarget, lastAnswer) : isTestLocation(r.fileName))
          => reportsUnused]_vars

\* The stdout lines that are records.
recordLines == SelectSeq(stdout, LAMBDA l : l.line = "record")

\* The place of a printed record in the order of discovery.
discoveryIndex(l) == CHOOSE k \in 1..Len(unused) : toString(unused[k]) = l

\* C5: the final listing is in descending order of span, and records of
\* equal span are listed in the reverse of their discovery order.
C5_SortOrder ==
    pc = "done" =>
        /\ Len(recordLines) = Len(unused)
        /\ \A i, j \in 1..Len(recordLines) :
              i < j =>
                 \/ recordLines[i].span > recordLines[j].span
                 \/ /\ recordLines[i].span = recordLines[j].span
                    /\ discoveryIndex(recordLines[i]) > discoveryIndex(recordLines[j])

HeuristicNames == {<<"to", "String">>, <<"dispose">>, <<"to", "JSON">>}

\* C6: a declaration named toString, dispose or toJSON is never a candidate
\* and never in the report, whatever the filter rules.
C6_NameHeuristic ==
    /\ \A i \in 1..Len(targets) : Nodes[targets[i]].text \notin HeuristicNames
    /\ \A i \in 1..Len(unused) : unused[i].symbolName \notin HeuristicNames

RECURSIVE sumSpans(_)
sumSpans(records) ==
    IF records = <<>> THEN 0 ELSE Head(records).span + sumSpans(Tail(records))

recordsOfFile(fileName) == SelectSeq(unused, LAMBDA r : r.fileName = fileName)

\* C7: whenever a source file has been fully processed, and at the end, the
\* global total is the sum of the spans of the records emitted so far and the
\* per-file total is the sum of the spans of that file's records; the count of
\* the summary line is the number of records.
C7_Totals ==
    /\ pc \in {"files", "listing", "done"} =>
          /\ totalLines = sumSpans(unused)
          /\ fileIndex > 1 =>
                fileLines = sumSpans(recordsOfFile(Nodes[SourceFiles[fileIndex - 1]].file))
    /\ \A i \in 1..Len(stderr) :
          stderr[i].line = "file" =>
             stderr[i].fileLines = sumSpans(recordsOfFile(stderr[i].fileName))
    /\ \A i \in 1..Len(stdout) :
          stdout[i].line = "summary" =>
             /\ stdout[i].count = Len(unused)
             /\ stdout[i].totalLines = sumSpans(unused)
    /\ pc = "done" => Len(recordLines) = Len(unused)

\* Records of both files are in the report, and the run is over.
C7_Witness ==
    /\ pc = "done"
    /\ recordsOfFile(FileA) # <<>>
    /\ recordsOfFile(FileT) # <<>>
    /\ Len(recordsOfFile(FileA)) >= 2

\* The declarations a record can be about: same file, same name.
declarationsOf(record) ==
    {enclosing(n) : n \in {i \in Identifiers :
                              /\ Nodes[i].file = record.fileName
                              /\ Nodes[i].text = record.symbolName}}

\* C8: the span of every record is 1 + (end line - start line) of the
\* declaration that encloses the name, not of the name, and at least 1.
C8_Span ==
    \A i \in 1..Len(unused) :
        /\ unused[i].span >= 1
        /\ \E d \in declarationsOf(unused[i]) :
              /\ unused[i].start.line = lineOfPosition(Nodes[d].file, Nodes[d].start)
              /\ unused[i].end.line = lineOfPosition(Nodes[d].file, Nodes[d].end)
              /\ unused[i].span = 1 + (lineOfPosition(Nodes[d].file, Nodes[d].end)
                                       - lineOfPosition(Nodes[d].file, Nodes[d].start))

\* A record of a declaration of several lines whose name is on one line.
C8_Witness ==
    \E i \in 1..Len(unused) :
        /\ unused[i].symbolName = <<"foo">>
        /\ unused[i].span = 3

\* C9: on stdout the record lines come first and the summary line is the
\* last line.
C9_SummaryLast ==
    pc = "done" =>
        /\ stdout[Len(stdout)].line = "summary"
        /\ \A i, j \in 1..Len(stdout) :
              (stdout[i].line = "summary" /\ stdout[j].line = "record") => j < i

\* An answer without any reference: undefined, no group, or empty groups.
noReferences(answer) ==
    answer.undefined \/ \A g \in 1..Len(answer.groups) : answer.groups[g] = <<>>

\* C10: when findReferences returns undefined, no group, or groups without
\* references, the candidate is reported as unused and the run goes on with
\* the next candidate.
C10_ServiceAnomalies ==
    [][(pc = "queried" /\ noReferences(lastAnswer)) => reportsUnused]_vars

(***************************************************************************)
(* Properties of the collector (checked under Spec)                        *)
(***************************************************************************)

\* The set of a sequence's elements.
elements(seq) == {seq[i] : i \in 1..Len(seq)}

\* The declarations of a file: the nodes of a candidate kind.
declarationsIn(fileName) ==
    {d \in NodeIds : Nodes[d].file = fileName /\ Nodes[d].kind \in CandidateKinds}

\* C11: the name of a declaration that itself carries the private modifier
\* is never a candidate, and the name of every declaration of a candidate
\* kind that does not itself carry it and that the filter accepts is a
\* candidate, at any depth, also beneath a private node.
C11_PrivateIsLocal ==
    pc \in {"targets", "queried"} =>
        LET decls == declarationsIn(Nodes[currentFile].file)
        IN  /\ \A d \in decls : Nodes[d].private => Nodes[d].name \notin elements(targets)
            /\ \A d \in decls :
                  (~Nodes[d].private /\ filter(rules, Nodes[d].name))
                     => Nodes[d].name \in elements(targets)
            /\ \A t \in elements(targets) :
                  \E d \in decls : Nodes[d].name = t /\ filter(rules, t)

\* A candidate whose declaration lies beneath a private declaration, whose
\* own name is no candidate.
C11_Witness ==
    /\ pc = "targets"
    /\ \E t \in elements(targets) :
          /\ ~Nodes[enclosing(t)].private
          /\ privateAtOrAbove(enclosing(t))
    /\ \E d \in declarationsIn(Nodes[currentFile].file) :
          Nodes[d].private /\ Nodes[d].name \notin elements(targets)

\* The file the loop is in, or was in last.
currentFileOrLast ==
    IF fileIndex <= Len(SourceFiles) THEN currentFile ELSE SourceFiles[Len(SourceFiles)]

\* Two records about the same declaration node: same file, same extent.
sameDeclaration(r1, r2) ==
    r1.fileName = r2.fileName /\ r1.start = r2.start /\ r1.end = r2.end

\* C12: after any prefix of the run the unused list holds no two records for
\* the same declaration node, and no candidate is queried twice: the Set of
\* candidates holds each name node once, although the collector reaches a
\* declaration once per child and distinct declarations share a name.
C12_OneRecordPerDeclaration ==
    /\ \A i, j \in 1..Len(targets) : i # j => targets[i] # targets[j]
    /\ \A i, j \in 1..Len(unused) : i # j => ~sameDeclaration(unused[i], unused[j])
    /\ pc = "queried" =>
          /\ lastTarget = targets[targetIndex]
          /\ \A k \in 1..(targetIndex - 1) : targets[k] # lastTarget
    /\ Len(recordsOfFile(Nodes[currentFileOrLast].file)) <= Len(targets)

\* Two distinct declarations of the same name in the same file, each with
\* several children, both reported.
C12_Witness ==
    \E i, j \in 1..Len(unused) :
        /\ i # j
        /\ unused[i].fileName = unused[j].fileName
        /\ unused[i].symbolName = unused[j].symbolName
        /\ \A d \in declarationsOf(unused[i]) : Len(Nodes[d].children) >= 2

====
